---- MODULE Spec2Model ----
(***************************************************************************)
(* A model of pgbelt's configuration core (pgbelt/config/models.py): the   *)
(* validated models User, DbConfig, FilterConfig and DbupgradeConfig, the   *)
(* URI builders, FilterConfig.apply, and the save/load lifecycle of a       *)
(* DbupgradeConfig against the files configs/<dc>/<db>/config.json.         *)
(*                                                                          *)
(* Conventions.  A Python str is a sequence of one-character strings, so    *)
(* "" is <<>>.  An Optional value is <<>> (None) or <<x>> (the value x).    *)
(* The outcome of a construction is <<>> (ValidationError raised, no        *)
(* object) or <<obj>>.  A JSON value is a record [t, v] tagged by t.  The   *)
(* text of a file is a sequence of tokens, each a record [t, v].            *)
(***************************************************************************)
EXTENDS Integers, Sequences, FiniteSets, TLC

VARIABLES
    call,     \* the last call of a pure operation: its name, input and output
    dirent,   \* the directory entries: path of a file |-> its inode
    inode,    \* inode |-> the tokens the file holds
    dirs,     \* the directories that exist
    task,     \* task |-> its position, its objects and its open file
    disk0,    \* the files as they were before any task ran (history)
    wrote,    \* path |-> the text of the write that completed last (history)
    menu      \* the inputs the callers draw from: raws, idents and fields

vars == <<call, dirent, inode, dirs, task, disk0, wrote, menu>>
fsvars == <<dirent, inode, dirs, task, disk0, wrote, menu>>

\* ---------------------------------------------------------------- bounds

MaxPwLen == 2
MaxItems == 3
MaxRule == 2
MaxOps == 3
MaxRaceOps == 2
ChunkLen == 8

\* ------------------------------------------------------- values and JSON

None == <<>>
Some(x) == <<x>>
Raised == <<>>
Ok(x) == <<x>>

RECURSIVE SeqsUpTo(_, _)
SeqsUpTo(S, n) ==
    IF n = 0 THEN {<<>>}
    ELSE LET shorter == SeqsUpTo(S, n - 1)
         IN  shorter \cup {Append(s, c) : s \in {q \in shorter : Len(q) = n - 1}, c \in S}

RECURSIVE Flatten(_)
Flatten(ss) == IF ss = <<>> THEN <<>> ELSE Head(ss) \o Flatten(Tail(ss))

Range(s) == {s[i] : i \in 1..Len(s)}

JNull == [t |-> "null", v |-> <<>>]
JStr(s) == [t |-> "str", v |-> s]
JObj(o) == [t |-> "obj", v |-> o]
JArr(a) == [t |-> "arr", v |-> a]

\* A field of a JSON object as pydantic reads an Optional[str] field: absent
\* gives the default, null gives None, a string gives the string, anything
\* else is a type error.
OptStrField(o, k, default) ==
    IF k \notin DOMAIN o THEN [ok |-> TRUE, val |-> default, given |-> FALSE]
    ELSE IF o[k].t = "null" THEN [ok |-> TRUE, val |-> None, given |-> TRUE]
    ELSE IF o[k].t = "str" THEN [ok |-> TRUE, val |-> Some(o[k].v), given |-> TRUE]
    ELSE [ok |-> FALSE, val |-> None, given |-> TRUE]

\* A required str field.
StrField(o, k) ==
    IF k \in DOMAIN o /\ o[k].t = "str"
    THEN [ok |-> TRUE, val |-> Some(o[k].v), given |-> TRUE]
    ELSE [ok |-> FALSE, val |-> None, given |-> FALSE]

\* ------------------------------------------------------------ validators

\* not_empty(v): raises when v == "", returns v otherwise (None included).
not_empty_skipped(v) == [raised |-> FALSE, val |-> v]

not_empty(v) == [raised |-> v = Some(<<>>), val |-> v]

\* A field with the not_empty validator: the validator runs on a value that
\* was given and passed the type check, never on a default.
Checked(f) ==
    IF ~f.ok THEN f
    ELSE IF ~f.given THEN f
    ELSE LET r == not_empty(f.val)
         IN  [ok |-> ~r.raised, val |-> r.val, given |-> TRUE]

\* User(name, pw): name is required, pw defaults to None; both not_empty.
User(j) ==
    IF j.t # "obj" THEN Raised
    ELSE LET name == Checked(StrField(j.v, "name"))
             pw == Checked(OptStrField(j.v, "pw", None))
         IN  IF name.ok /\ pw.ok
             THEN Ok([name |-> name.val[1], pw |-> pw.val])
             ELSE Raised

\* has_password(v): raises when v.pw is None or "".
has_password_skipped(v) == [raised |-> FALSE, val |-> v]

has_password(v) == [raised |-> v.pw = None \/ v.pw = Some(<<>>), val |-> v]

\* A privileged user field of DbConfig: a User, then has_password.
PrivilegedUser(o, k) ==
    IF k \notin DOMAIN o THEN Raised
    ELSE LET u == User(o[k])
         IN  IF u = Raised THEN Raised
             ELSE LET r == has_password(u[1])
                  IN  IF r.raised THEN Raised ELSE Ok(r.val)

\* other_users: Optional[list[User]] = None, with no validator of its own.
OtherUsers(o) ==
    IF "other_users" \notin DOMAIN o THEN Ok(None)
    ELSE IF o["other_users"].t = "null" THEN Ok(None)
    ELSE IF o["other_users"].t # "arr" THEN Raised
    ELSE LET us == [i \in 1..Len(o["other_users"].v) |-> User(o["other_users"].v[i])]
         IN  IF \E i \in 1..Len(us) : us[i] = Raised THEN Raised
             ELSE Ok(Some([i \in 1..Len(us) |-> us[i][1]]))

DbConfig(j) ==
    IF j.t # "obj" THEN Raised
    ELSE LET o == j.v
             host == Checked(StrField(o, "host"))
             ip == Checked(StrField(o, "ip"))
             db == Checked(StrField(o, "db"))
             port == Checked(StrField(o, "port"))
             root == PrivilegedUser(o, "root_user")
             owner == PrivilegedUser(o, "owner_user")
             pglogical == PrivilegedUser(o, "pglogical_user")
             others == OtherUsers(o)
         IN  IF /\ host.ok /\ ip.ok /\ db.ok /\ port.ok
                /\ root # Raised /\ owner # Raised /\ pglogical # Raised
                /\ others # Raised
             THEN Ok([host |-> host.val[1], ip |-> ip.val[1], db |-> db.val[1],
                      port |-> port.val[1], root_user |-> root[1],
                      owner_user |-> owner[1], pglogical_user |-> pglogical[1],
                      other_users |-> others[1]])
             ELSE Raised

\* ------------------------------------------------------------------ URIs

AlwaysSafe == {"a", "p", "s", "w", "_", ".", "-", "~"}

PercentEncode(c) ==
    CASE c = "@" -> <<"%", "4", "0">>
      [] c = ":" -> <<"%", "3", "A">>
      [] c = "/" -> <<"%", "2", "F">>
      [] c = "%" -> <<"%", "2", "5">>
      [] c = " " -> <<"%", "2", "0">>
      [] OTHER -> <<"%", "?", "?">>

\* quote(s): urllib.parse.quote with its default safe="/".
quote(s) ==
    Flatten([i \in 1..Len(s) |->
        IF s[i] \in AlwaysSafe \cup {"/"} THEN <<s[i]>> ELSE PercentEncode(s[i])])

uri(c, user) ==
    <<"postgresql://">> \o user.name \o <<":">> \o quote(user.pw[1]) \o <<"@">>
        \o c.ip \o <<":">> \o c.port \o <<"/">> \o c.db

root_uri(c) == uri(c, c.root_user)
owner_uri(c) == uri(c, c.owner_user)
pglogical_uri(c) == uri(c, c.pglogical_user)

\* ---------------------------------------------------------- FilterConfig

FilterConfig(j) ==
    IF j.t # "obj" THEN Raised
    ELSE LET list(k) ==
                 IF k \notin DOMAIN j.v THEN Ok(None)
                 ELSE IF j.v[k].t = "null" THEN Ok(None)
                 ELSE IF j.v[k].t # "arr" THEN Raised
                 ELSE IF \E i \in 1..Len(j.v[k].v) : j.v[k].v[i].t # "str" THEN Raised
                 ELSE Ok(Some([i \in 1..Len(j.v[k].v) |-> j.v[k].v[i].v]))
         IN  IF list("include") # Raised /\ list("exclude") # Raised
             THEN Ok([include |-> list("include")[1], exclude |-> list("exclude")[1]])
             ELSE Raised

\* apply(self, list_of_items), its body evaluated on the rule self.
apply_exclude_on_top(self, list_of_items) ==
    LET filtered1 == IF self.include # None
                     THEN SelectSeq(list_of_items, LAMBDA item : item \in Range(self.include[1]))
                     ELSE <<>>
    IN  IF self.exclude # None
        THEN SelectSeq(IF self.include # None THEN filtered1 ELSE list_of_items,
                       LAMBDA item : item \notin Range(self.exclude[1]))
        ELSE filtered1

apply_unset_keeps_all(self, list_of_items) ==
    LET filtered1 == IF self.include # None
                     THEN SelectSeq(list_of_items, LAMBDA item : item \in Range(self.include[1]))
                     ELSE list_of_items
    IN  IF self.exclude # None
        THEN SelectSeq(list_of_items, LAMBDA item : item \notin Range(self.exclude[1]))
        ELSE filtered1

apply(self, list_of_items) ==
    LET filtered0 == <<>>
        filtered1 == IF self.include # None
                     THEN SelectSeq(list_of_items, LAMBDA item : item \in Range(self.include[1]))
                     ELSE filtered0
    IN  IF self.exclude # None
        THEN SelectSeq(list_of_items, LAMBDA item : item \notin Range(self.exclude[1]))
        ELSE filtered1

\* ------------------------------------------------------- DbupgradeConfig

\* An Optional[DbConfig] field: absent or null gives None, anything else
\* must construct.
OptDbConfig(o, k) ==
    IF k \notin DOMAIN o THEN Ok(None)
    ELSE IF o[k].t = "null" THEN Ok(None)
    ELSE IF DbConfig(o[k]) = Raised THEN Raised
    ELSE Ok(Some(DbConfig(o[k])[1]))

\* An Optional[FilterConfig] field.
OptFilterConfig(o, k) ==
    IF k \notin DOMAIN o THEN Ok(None)
    ELSE IF o[k].t = "null" THEN Ok(None)
    ELSE IF FilterConfig(o[k]) = Raised THEN Raised
    ELSE Ok(Some(FilterConfig(o[k])[1]))

DbupgradeConfig(j) ==
    IF j.t # "obj" THEN Raised
    ELSE LET o == j.v
             db == Checked(StrField(o, "db"))
             dc == Checked(StrField(o, "dc"))
             src == OptDbConfig(o, "src")
             dst == OptDbConfig(o, "dst")
             tables == OptFilterConfig(o, "tables")
             sequences == OptFilterConfig(o, "sequences")
             schema_name == OptStrField(o, "schema_name", Some(<<"public">>))
         IN  IF /\ db.ok /\ dc.ok /\ schema_name.ok
                /\ src # Raised /\ dst # Raised
                /\ tables # Raised /\ sequences # Raised
             THEN Ok([db |-> db.val[1], dc |-> dc.val[1], src |-> src[1],
                      dst |-> dst[1], tables |-> tables[1],
                      sequences |-> sequences[1], schema_name |-> schema_name.val])
             ELSE Raised

\* ------------------------------------------------------- JSON text: dump

LBrace == [t |-> "{", v |-> <<>>]
RBrace == [t |-> "}", v |-> <<>>]
LBracket == [t |-> "[", v |-> <<>>]
RBracket == [t |-> "]", v |-> <<>>]
TNull == [t |-> "null", v |-> <<>>]
TKey(k) == [t |-> "key", v |-> <<k>>]
TStr(s) == [t |-> "str", v |-> s]
\* Bytes that are no text in the encoding the file is opened with.
BadByte == [t |-> "bad", v |-> <<>>]
\* The zero byte a write past the end of a file leaves in the gap.
NulByte == [t |-> "nul", v |-> <<>>]

DumpOptStr(x) == IF x = None THEN <<TNull>> ELSE <<TStr(x[1])>>

DumpUser(u) ==
    <<LBrace, TKey("name"), TStr(u.name), TKey("pw")>> \o DumpOptStr(u.pw) \o <<RBrace>>

DumpUsers(x) ==
    IF x = None THEN <<TNull>>
    ELSE <<LBracket>> \o Flatten([i \in 1..Len(x[1]) |-> DumpUser(x[1][i])]) \o <<RBracket>>

DumpDbConfig(c) ==
    <<LBrace, TKey("host"), TStr(c.host), TKey("ip"), TStr(c.ip),
      TKey("db"), TStr(c.db), TKey("port"), TStr(c.port)>>
        \o <<TKey("root_user")>> \o DumpUser(c.root_user)
        \o <<TKey("owner_user")>> \o DumpUser(c.owner_user)
        \o <<TKey("pglogical_user")>> \o DumpUser(c.pglogical_user)
        \o <<TKey("other_users")>> \o DumpUsers(c.other_users)
        \o <<RBrace>>

DumpStrList(x) ==
    IF x = None THEN <<TNull>>
    ELSE <<LBracket>> \o [i \in 1..Len(x[1]) |-> TStr(x[1][i])] \o <<RBracket>>

DumpFilterConfig(f) ==
    <<LBrace, TKey("include")>> \o DumpStrList(f.include)
        \o <<TKey("exclude")>> \o DumpStrList(f.exclude) \o <<RBrace>>

DumpOptDbConfig(x) == IF x = None THEN <<TNull>> ELSE DumpDbConfig(x[1])

DumpOptFilterConfig(x) == IF x = None THEN <<TNull>> ELSE DumpFilterConfig(x[1])

\* self.model_dump_json(indent=4): every field, in declaration order.
model_dump_json_no_schema(c) ==
    <<LBrace, TKey("db"), TStr(c.db), TKey("dc"), TStr(c.dc)>>
        \o <<TKey("src")>> \o DumpOptDbConfig(c.src)
        \o <<TKey("dst")>> \o DumpOptDbConfig(c.dst)
        \o <<TKey("tables")>> \o DumpOptFilterConfig(c.tables)
        \o <<TKey("sequences")>> \o DumpOptFilterConfig(c.sequences)
        \o <<RBrace>>

model_dump_json(c) ==
    <<LBrace, TKey("db"), TStr(c.db), TKey("dc"), TStr(c.dc)>>
        \o <<TKey("src")>> \o DumpOptDbConfig(c.src)
        \o <<TKey("dst")>> \o DumpOptDbConfig(c.dst)
        \o <<TKey("tables")>> \o DumpOptFilterConfig(c.tables)
        \o <<TKey("sequences")>> \o DumpOptFilterConfig(c.sequences)
        \o <<TKey("schema_name")>> \o DumpOptStr(c.schema_name)
        \o <<RBrace>>

\* ------------------------------------------------------ JSON text: parse

ParseFail == [ok |-> FALSE, val |-> JNull, next |-> 0]

RECURSIVE ParseValue(_, _), ParseMembers(_, _, _), ParseElements(_, _, _)
\* The JSON value that starts at token i, and the place after it.
ParseValue(toks, i) ==
    IF i > Len(toks) THEN ParseFail
    ELSE IF toks[i].t = "null" THEN [ok |-> TRUE, val |-> JNull, next |-> i + 1]
    ELSE IF toks[i].t = "str" THEN [ok |-> TRUE, val |-> JStr(toks[i].v), next |-> i + 1]
    ELSE IF toks[i].t = "{" THEN ParseMembers(toks, i + 1, <<>>)
    ELSE IF toks[i].t = "[" THEN ParseElements(toks, i + 1, <<>>)
    ELSE ParseFail

\* The members of an object up to its closing brace; a repeated key keeps
\* its last value.
ParseMembers(toks, i, acc) ==
    IF i > Len(toks) THEN ParseFail
    ELSE IF toks[i].t = "}" THEN [ok |-> TRUE, val |-> JObj(acc), next |-> i + 1]
    ELSE IF toks[i].t # "key" THEN ParseFail
    ELSE LET r == ParseValue(toks, i + 1)
         IN  IF ~r.ok THEN ParseFail
             ELSE ParseMembers(toks, r.next, (toks[i].v[1] :> r.val) @@ acc)

ParseElements(toks, i, acc) ==
    IF i > Len(toks) THEN ParseFail
    ELSE IF toks[i].t = "]" THEN [ok |-> TRUE, val |-> JArr(acc), next |-> i + 1]
    ELSE LET r == ParseValue(toks, i)
         IN  IF ~r.ok THEN ParseFail
             ELSE ParseElements(toks, r.next, Append(acc, r.val))

\* cls.model_validate_json(raw): ValidationError (Raised) when raw is not one
\* JSON value or the value does not validate.
model_validate_json(raw) ==
    LET r == ParseValue(raw, 1)
    IN  IF r.ok /\ r.next = Len(raw) + 1 THEN DbupgradeConfig(r.val) ELSE Raised

\* ----------------------------------------------------------------- paths

config_dir(db, dc) == <<"configs", "/">> \o dc \o <<"/">> \o db

\* os.path.join(a, b) for a relative b: a separator is added unless a is
\* empty or ends with one.
join(a, b) ==
    IF a = <<>> \/ a[Len(a)] = "/" THEN a \o b ELSE a \o <<"/">> \o b

config_file(db, dc) == join(config_dir(db, dc), <<"config.json">>)

\* ------------------------------------------------------------ file system

Tasks == {"t1", "t2"}

NoIdent == [db |-> <<>>, dc |-> <<>>]
NoRes == [st |-> "-", val |-> None]

\* A task that has not run anything and may start lim file operations.
IdleTask(lim) ==
    [pc |-> "idle", self |-> None, arg |-> NoIdent, h |-> 0, off |-> 0,
     res |-> NoRes, ops |-> 0, lim |-> lim, assigned |-> FALSE,
     last |-> "-", saved |-> None, race |-> {}, alone |-> FALSE,
     lone |-> {}, ids |-> {}]

\* self.file and self.dir of the task's configuration.
file(t) == config_file(task[t].self[1].db, task[t].self[1].dc)
dir(t) == config_dir(task[t].self[1].db, task[t].self[1].dc)
ident(t) == [db |-> task[t].self[1].db, dc |-> task[t].self[1].dc]

\* The text at a path, if a file is there.
FileAt(p) == IF p \in DOMAIN dirent THEN Some(inode[dirent[p]]) ELSE None

\* Inodes are kept while a directory entry or an open file refers to them.
Collect(ino, de, tk) ==
    LET live == {de[p] : p \in DOMAIN de} \cup {tk[t].h : t \in Tasks}
    IN  [n \in DOMAIN ino \cap live |-> ino[n]]

FreshInode == CHOOSE n \in 1..(Cardinality(DOMAIN inode) + 1) : n \notin DOMAIN inode

\* A write of chunk at offset off: the gap past the end of the file, if any,
\* is filled with zero bytes, and what lies beyond the chunk stays.
Overlay(text, off, chunk) ==
    LET padded == IF Len(text) < off
                  THEN text \o [i \in 1..(off - Len(text)) |-> NulByte]
                  ELSE text
    IN  SubSeq(padded, 1, off) \o chunk
            \o SubSeq(padded, off + Len(chunk) + 1, Len(padded))

\* The tasks that are inside a save of path p, after its remove and before
\* its write has completed, each with the number of its operation.
MidSave(p) ==
    {<<s, task[s].ops>> : s \in {u \in Tasks : /\ task[u].pc \in {"open", "write"}
                                               /\ file(u) = p}}

\* Those of them since whose remove no other save has opened p for writing.
MidSaveAlone(p) == {r \in MidSave(p) : task[r[1]].alone}

\* Task t opens p for writing: the saves of p that are past their remove are
\* no longer the only ones to have touched p since.
Joined(tk, t, p) ==
    [u \in Tasks |->
        IF u # t /\ <<u, tk[u].ops>> \in MidSave(p)
        THEN [tk[u] EXCEPT !.alone = FALSE] ELSE tk[u]]

\* --------------------------------------------------------- sample inputs

GoodUserRaw == JObj([name |-> JStr(<<"u">>), pw |-> JStr(<<"p">>)])
PwlessUserRaw == JObj([name |-> JStr(<<"o">>)])

SampleDbRaw ==
    JObj([host |-> JStr(<<"h">>), ip |-> JStr(<<"i">>), db |-> JStr(<<"b">>),
          port |-> JStr(<<"5">>), root_user |-> GoodUserRaw,
          owner_user |-> GoodUserRaw, pglogical_user |-> GoodUserRaw,
          other_users |-> JArr(<<PwlessUserRaw>>)])

SampleDb == DbConfig(SampleDbRaw)[1]
SampleFilter == [include |-> Some(<<<<"t">>>>), exclude |-> None]

Names == {<<"a">>, <<"a", "/">>}
Dcs == {<<"d">>}
Idents == [db : Names, dc : Dcs]

\* What a caller constructs a DbupgradeConfig from.
UpgradeRaws ==
    {JObj([db |-> JStr(db), dc |-> JStr(dc)]) : db \in Names, dc \in Dcs}
    \cup {JObj([db |-> JStr(db), dc |-> JStr(dc), src |-> SampleDbRaw,
                dst |-> SampleDbRaw,
                tables |-> JObj([include |-> JArr(<<JStr(<<"t">>)>>)]),
                sequences |-> JObj([exclude |-> JArr(<<>>)]),
                schema_name |-> JNull]) : db \in Names, dc \in Dcs}
    \cup {JObj([db |-> JStr(<<>>), dc |-> JStr(<<"d">>)])}

\* What a caller assigns to a field of a configuration.
Assigned(c, fields) ==
    {[c EXCEPT !.src = x] : x \in {y \in {None, Some(SampleDb)} : "src" \in fields}}
    \cup {[c EXCEPT !.dst = x] : x \in {y \in {None, Some(SampleDb)} : "dst" \in fields}}
    \cup {[c EXCEPT !.tables = x] :
             x \in {y \in {None, Some(SampleFilter)} : "tables" \in fields}}
    \cup {[c EXCEPT !.sequences = x] :
             x \in {y \in {None, Some(SampleFilter)} : "sequences" \in fields}}

\* ------------------------------------------------------------------ save

\* await makedirs(self.dir), FileExistsError passed over.  The first step of
\* save().
Makedirs(t) ==
    /\ task[t].pc = "idle" /\ task[t].self # None /\ task[t].ops < task[t].lim
    /\ dirs' = dirs \cup {dir(t)}
    /\ task' = [task EXCEPT ![t].pc = "remove", ![t].ops = @ + 1,
                            ![t].res = NoRes, ![t].last = "save",
                            ![t].saved = None, ![t].race = {},
                            ![t].lone = {}, ![t].alone = FALSE,
                            ![t].ids = @ \cup {ident(t)}]
    /\ UNCHANGED <<call, dirent, inode, disk0, wrote, menu>>

\* remove(path), FileNotFoundError passed over: the entry goes, the inode
\* stays for those who hold it open.
remove_skipped(de, p) == de

remove(de, p) == [q \in DOMAIN de \ {p} |-> de[q]]

Remove(t) ==
    /\ task[t].pc = "remove"
    /\ dirent' = remove(dirent, file(t))
    /\ inode' = Collect(inode, dirent', task)
    /\ task' = [task EXCEPT ![t].pc = "open", ![t].alone = TRUE]
    /\ UNCHANGED <<call, dirs, disk0, wrote, menu>>

\* aopen(self.file, "w"): the file is created, or truncated if it is there;
\* FileNotFoundError (not caught) if its directory is not there.
OpenW(t) ==
    /\ task[t].pc = "open"
    /\ IF dir(t) \notin dirs
       THEN /\ task' = [task EXCEPT ![t].pc = "idle", ![t].alone = FALSE,
                                    ![t].res = [st |-> "raised", val |-> None]]
            /\ UNCHANGED <<dirent, inode>>
       ELSE IF file(t) \in DOMAIN dirent
       THEN /\ inode' = [inode EXCEPT ![dirent[file(t)]] = <<>>]
            /\ task' = Joined([task EXCEPT ![t].pc = "write",
                                            ![t].h = dirent[file(t)],
                                            ![t].off = 0], t, file(t))
            /\ UNCHANGED dirent
       ELSE /\ dirent' = (file(t) :> FreshInode) @@ dirent
            /\ inode' = (FreshInode :> <<>>) @@ inode
            /\ task' = Joined([task EXCEPT ![t].pc = "write", ![t].h = FreshInode,
                                            ![t].off = 0], t, file(t))
    /\ UNCHANGED <<call, dirs, disk0, wrote, menu>>

\* f.write(self.model_dump_json(indent=4)) and the close of f.  The text
\* reaches the file at the offset of this task's open file, at most ChunkLen
\* tokens at a time, so a prefix of it may be visible before the rest.
Write(t) ==
    /\ task[t].pc = "write"
    /\ LET data == model_dump_json(task[t].self[1])
           off == task[t].off
           left == Len(data) - off
           k == IF left > ChunkLen THEN ChunkLen ELSE left
       IN  /\ inode' = Collect(
                  [inode EXCEPT ![task[t].h] =
                      Overlay(@, off, SubSeq(data, off + 1, off + k))],
                  dirent,
                  IF k = left THEN [task EXCEPT ![t].h = 0] ELSE task)
           /\ IF k = left
              THEN /\ task' = [task EXCEPT ![t].pc = "idle", ![t].h = 0,
                                           ![t].off = 0, ![t].alone = FALSE,
                                           ![t].saved = task[t].self]
                   /\ wrote' = (file(t) :> data) @@ wrote
              ELSE /\ task' = [task EXCEPT ![t].off = off + k]
                   /\ UNCHANGED wrote
    /\ UNCHANGED <<call, dirent, dirs, disk0, menu>>

\* ------------------------------------------------------------------ load

\* f.read() of a file opened "r": the text, or UnicodeDecodeError (Raised)
\* when the bytes are no text.
read(bytes) ==
    IF \E i \in 1..Len(bytes) : bytes[i] = BadByte THEN Raised ELSE Ok(bytes)

\* aopen(config_file(db, dc), "r"), the first step of load(db, dc):
\* FileNotFoundError gives None.
LoadOpen(t, id) ==
    /\ task[t].pc = "idle" /\ task[t].ops < task[t].lim
    /\ LET p == config_file(id.db, id.dc)
           kept == IF /\ task[t].saved # None /\ task[t].last = "save"
                      /\ task[t].saved[1].db = id.db /\ task[t].saved[1].dc = id.dc
                   THEN task[t].saved ELSE None
           began == [task EXCEPT ![t].ops = @ + 1, ![t].arg = id,
                                 ![t].last = "load", ![t].saved = kept,
                                 ![t].race = MidSave(p),
                                 ![t].lone = MidSaveAlone(p),
                                 ![t].ids = @ \cup {id}]
       IN  IF p \notin DOMAIN dirent
           THEN task' = [began EXCEPT ![t].res = [st |-> "none", val |-> None]]
           ELSE task' = [began EXCEPT ![t].pc = "read", ![t].h = dirent[p],
                                      ![t].res = NoRes]
    /\ UNCHANGED <<call, dirent, inode, dirs, disk0, wrote, menu>>

\* raw = await f.read(), then cls.model_validate_json(raw): ValidationError
\* gives None, anything else is not caught.
LoadRead(t) ==
    /\ task[t].pc = "read"
    /\ LET raw == read(inode[task[t].h])
           out == IF raw = Raised THEN Raised ELSE model_validate_json(raw[1])
           p == config_file(task[t].arg.db, task[t].arg.dc)
           ended == [task EXCEPT ![t].pc = "idle", ![t].h = 0,
                                 ![t].race = @ \cap MidSave(p),
                                 ![t].lone = @ \cap MidSaveAlone(p)]
       IN  /\ task' = IF raw = Raised
                      THEN [ended EXCEPT ![t].res = [st |-> "raised", val |-> None]]
                      ELSE IF out = Raised
                      THEN [ended EXCEPT ![t].res = [st |-> "none", val |-> None]]
                      ELSE [ended EXCEPT ![t].res = [st |-> "present", val |-> out],
                                         ![t].self = out, ![t].assigned = FALSE]
           /\ inode' = Collect(inode, dirent, task')
    /\ UNCHANGED <<call, dirent, dirs, disk0, wrote, menu>>

\* --------------------------------------------------------------- callers

\* A caller constructs a DbupgradeConfig; nothing is made when it raises.
New(t, raw) ==
    /\ task[t].pc = "idle" /\ task[t].self = None /\ task[t].lim > 0
    /\ DbupgradeConfig(raw) # Raised
    /\ task' = [task EXCEPT ![t].self = DbupgradeConfig(raw), ![t].saved = None]
    /\ UNCHANGED <<call, dirent, inode, dirs, disk0, wrote, menu>>

\* A caller assigns src, dst, tables or sequences of its configuration.
Assign(t) ==
    /\ task[t].pc = "idle" /\ task[t].self # None /\ ~task[t].assigned
    /\ task[t].lim > 0
    /\ \E c \in Assigned(task[t].self[1], menu.fields) :
           task' = [task EXCEPT ![t].self = Some(c), ![t].assigned = TRUE,
                                ![t].saved = None]
    /\ UNCHANGED <<call, dirent, inode, dirs, disk0, wrote, menu>>

\* ------------------------------------------------- calls of the pure part

\* A field that is absent, or present with one of the values vs.
Fld(k, vs) == {<<>>} \cup {(k :> x) : x \in vs}

StrRaws == {JStr(<<>>), JStr(<<"x">>)}

UserRaws ==
    {JObj(n @@ p) : n \in Fld("name", {JStr(<<>>), JStr(<<"n">>)}),
                    p \in Fld("pw", {JNull, JStr(<<>>), JStr(<<"p">>)})}

\* The users given for the privileged roles: each has a name.
PrivRaws == {u \in UserRaws : "name" \in DOMAIN u.v /\ u.v["name"] = JStr(<<"n">>)}

OtherRaws ==
    Fld("other_users", {JNull, JArr(<<>>), JArr(<<PwlessUserRaw>>),
                        JArr(<<PwlessUserRaw, GoodUserRaw>>),
                        JArr(<<JObj([name |-> JStr(<<"o">>), pw |-> JStr(<<>>)])>>)})

DbConfigRaws ==
    {JObj([host |-> h, ip |-> i, db |-> d, port |-> p, root_user |-> r,
           owner_user |-> o, pglogical_user |-> g] @@ x) :
        h \in StrRaws, i \in StrRaws, d \in StrRaws, p \in StrRaws,
        r \in PrivRaws, o \in PrivRaws, g \in PrivRaws, x \in OtherRaws}

PureUpgradeRaws ==
    {JObj(d @@ c @@ x) : d \in Fld("db", StrRaws), c \in Fld("dc", StrRaws),
                         x \in Fld("src", {JNull, SampleDbRaw})}

PwChars == {"p", "@", ":", "/"}
Passwords == SeqsUpTo(PwChars, MaxPwLen) \ {<<>>}

UserWith(name, pw) == JObj([name |-> JStr(name), pw |-> JStr(pw)])

\* Validated DbConfigs with passwords of every shape.
UriConfigs ==
    {DbConfig(JObj([host |-> JStr(<<"h">>), ip |-> JStr(i), db |-> JStr(<<"b">>),
                    port |-> JStr(<<"5">>),
                    root_user |-> UserWith(<<"r">>, rp),
                    owner_user |-> UserWith(<<"o">>, op),
                    pglogical_user |-> UserWith(<<"g", "@">>, gp)]))[1] :
        i \in {<<"1">>, <<"1", ":", "2">>}, rp \in Passwords,
        op \in {<<"s">>, <<"/", "@">>}, gp \in {<<"w">>, <<":">>}}

Items == {"a", "b", "c"}
Rules == {None} \cup {Some(r) : r \in SeqsUpTo(Items, MaxRule)}

\* A call that has been made with input x and has not returned.
Pending(op, x) == [op |-> op, in |-> x, out |-> <<>>, done |-> FALSE]

Return(out) == call' = [call EXCEPT !.out = out, !.done = TRUE]

NewUser ==
    /\ call.op = "User" /\ ~call.done
    /\ Return(User(call.in))
    /\ UNCHANGED fsvars

NewDbConfig ==
    /\ call.op = "DbConfig" /\ ~call.done
    /\ Return(DbConfig(call.in))
    /\ UNCHANGED fsvars

NewDbupgradeConfig ==
    /\ call.op = "DbupgradeConfig" /\ ~call.done
    /\ Return(DbupgradeConfig(call.in))
    /\ UNCHANGED fsvars

Uris ==
    /\ call.op = "uri" /\ ~call.done
    /\ Return(<<root_uri(call.in), owner_uri(call.in), pglogical_uri(call.in)>>)
    /\ UNCHANGED fsvars

Apply ==
    /\ call.op = "apply" /\ ~call.done
    /\ Return(apply(call.in.self, call.in.list_of_items))
    /\ UNCHANGED fsvars

\* -------------------------------------------------------- specifications

NoCall == [op |-> "-", in |-> <<>>, out |-> <<>>, done |-> TRUE]

NoFiles ==
    /\ dirent = <<>> /\ inode = <<>> /\ dirs = {} /\ disk0 = <<>> /\ wrote = <<>>

\* The pure part: constructions, URI builders, FilterConfig.apply.
PureInit ==
    /\ \/ \E raw \in UserRaws : call = Pending("User", raw)
       \/ \E raw \in DbConfigRaws : call = Pending("DbConfig", raw)
       \/ \E raw \in PureUpgradeRaws : call = Pending("DbupgradeConfig", raw)
       \/ \E c \in UriConfigs : call = Pending("uri", c)
       \/ \E include \in Rules, exclude \in Rules,
             items \in SeqsUpTo(Items, MaxItems) :
             call = Pending("apply", [self |-> [include |-> include,
                                                exclude |-> exclude],
                                      list_of_items |-> items])
    /\ NoFiles
    /\ task = [t \in Tasks |-> IdleTask(0)]
    /\ menu = [raws |-> {}, idents |-> {}, fields |-> {}]

PureNext == NewUser \/ NewDbConfig \/ NewDbupgradeConfig \/ Uris \/ Apply

PureSpec == PureInit /\ [][PureNext]_vars

\* What a file may hold before any task runs.
OldConfig ==
    [db |-> <<"a">>, dc |-> <<"d">>, src |-> None, dst |-> None,
     tables |-> None, sequences |-> Some(SampleFilter),
     schema_name |-> Some(<<"old">>)]

SampleTexts ==
    { <<>>,
      <<LBrace>>,
      <<BadByte>>,
      <<LBrace, TKey("dc"), TStr(<<"d">>), RBrace>>,
      <<LBrace, TKey("db"), TStr(<<>>), TKey("dc"), TStr(<<"d">>), RBrace>>,
      <<LBrace, TKey("db"), TStr(<<"a">>), TKey("dc"), TStr(<<"d">>),
        TKey("src"), LBrace, TKey("host"), TStr(<<"h">>), RBrace, RBrace>>,
      <<LBrace, TKey("db"), TStr(<<"a">>), TKey("dc"), TStr(<<"d">>), RBrace>>,
      <<LBrace, TKey("db"), TStr(<<"a">>), TKey("dc"), TStr(<<"d">>), RBrace, RBrace>>,
      model_dump_json(OldConfig) }

\* No file, or one file at the path of an identity.
Disk(ids, texts) ==
    \/ NoFiles
    \/ \E id \in ids, text \in texts :
          /\ dirent = (config_file(id.db, id.dc) :> 1)
          /\ inode = (1 :> text)
          /\ dirs = {config_dir(id.db, id.dc)}
          /\ disk0 = (config_file(id.db, id.dc) :> text)
          /\ wrote = <<>>

FsNext ==
    \/ \E t \in Tasks, raw \in menu.raws : New(t, raw)
    \/ \E t \in Tasks : Assign(t)
    \/ \E t \in Tasks : Makedirs(t)
    \/ \E t \in Tasks : Remove(t)
    \/ \E t \in Tasks : OpenW(t)
    \/ \E t \in Tasks : Write(t)
    \/ \E t \in Tasks, id \in menu.idents : LoadOpen(t, id)
    \/ \E t \in Tasks : LoadRead(t)

RaceIdents == [db : {<<"a">>}, dc : Dcs]

\* One task: its operations follow one another.
SeqInit ==
    /\ call = NoCall
    /\ Disk(RaceIdents, SampleTexts)
    /\ task = [t \in Tasks |-> IF t = "t1" THEN IdleTask(MaxOps) ELSE IdleTask(0)]
    /\ menu = [raws |-> UpgradeRaws, idents |-> Idents,
               fields |-> {"src", "dst", "tables", "sequences"}]

Spec == SeqInit /\ [][FsNext]_vars

\* Two tasks on one identity: their steps interleave.

RaceRaws == {JObj([db |-> JStr(<<"a">>), dc |-> JStr(<<"d">>)])}

RaceInit ==
    /\ call = NoCall
    /\ Disk(RaceIdents, {model_dump_json(OldConfig)})
    /\ task = [t \in Tasks |-> IdleTask(MaxRaceOps)]
    /\ menu = [raws |-> RaceRaws, idents |-> RaceIdents, fields |-> {"tables"}]

RaceSpec == RaceInit /\ [][FsNext]_vars

\* ---------------------------------------------------------------- claims

Done(op) == call.done /\ call.op = op

\* The raw field k of an object is the empty string.
EmptyGiven(o, k) == k \in DOMAIN o /\ o[k].t = "str" /\ o[k].v = <<>>

\* The raw field k of an object is a string, stored as it was given.
StoredAsGiven(o, k, stored) == (k \in DOMAIN o /\ o[k].t = "str") => stored = o[k].v

\* The raw user has no password: pw is absent, null or empty.
PwMissing(u) ==
    \/ "pw" \notin DOMAIN u.v
    \/ u.v["pw"].t = "null"
    \/ u.v["pw"].t = "str" /\ u.v["pw"].v = <<>>

Privileged == {"root_user", "owner_user", "pglogical_user"}
DbStrings == {"host", "ip", "db", "port"}

\* C3: constructing a DbConfig fails (no object) whenever root_user,
\* owner_user or pglogical_user has pw absent, null or empty; it succeeds
\* with other_users entries that have no pw when the required strings are
\* not empty and the three privileged users carry passwords.
C3_PrivilegedUsersNeedPassword ==
    Done("DbConfig") =>
        LET o == call.in.v
        IN  /\ (\E k \in Privileged : PwMissing(o[k])) => call.out = Raised
            /\ ( /\ \A k \in DbStrings : ~EmptyGiven(o, k)
                 /\ \A k \in Privileged : ~PwMissing(o[k])
                 /\ "other_users" \in DOMAIN o
                 /\ o["other_users"].t = "arr"
                 /\ \A i \in 1..Len(o["other_users"].v) :
                        "pw" \notin DOMAIN o["other_users"].v[i].v )
               => /\ call.out # Raised
                  /\ call.out[1].other_users # None
                  /\ \A i \in 1..Len(call.out[1].other_users[1]) :
                         call.out[1].other_users[1][i].pw = None

C3_Witness ==
    /\ Done("DbConfig")
    /\ \A k \in DbStrings : ~EmptyGiven(call.in.v, k)
    /\ "pw" \notin DOMAIN call.in.v["root_user"].v
    /\ ~PwMissing(call.in.v["owner_user"])
    /\ ~PwMissing(call.in.v["pglogical_user"])
    /\ "other_users" \in DOMAIN call.in.v
    /\ call.in.v["other_users"] = JArr(<<PwlessUserRaw>>)
    /\ call.out = Raised

\* The password as the claim has it encoded: every character outside the
\* unreserved ones is percent-encoded, "/" included.
EncodeReserved(s) ==
    Flatten([i \in 1..Len(s) |->
        IF s[i] \in AlwaysSafe THEN <<s[i]>> ELSE PercentEncode(s[i])])

ClaimedUri(c, user) ==
    <<"postgresql://">> \o user.name \o <<":">> \o EncodeReserved(user.pw[1])
        \o <<"@">> \o c.ip \o <<":">> \o c.port \o <<"/">> \o c.db

\* C4: root_uri, owner_uri and pglogical_uri are
\* postgresql://<name>:<enc(pw)>@<ip>:<port>/<db>, where enc percent-encodes
\* every reserved character of the password, "@", ":" and "/" included, and
\* name, ip, port and db are not encoded.
C4_UrisEncodeReservedCharacters ==
    Done("uri") =>
        /\ call.out[1] = ClaimedUri(call.in, call.in.root_user)
        /\ call.out[2] = ClaimedUri(call.in, call.in.owner_user)
        /\ call.out[3] = ClaimedUri(call.in, call.in.pglogical_user)

\* The elements of items that are in S (member) or not in S (~member), in
\* the order of items.
RECURSIVE Keep(_, _, _)
Keep(items, S, member) ==
    IF items = <<>> THEN <<>>
    ELSE (IF (Head(items) \in S) = member THEN <<Head(items)>> ELSE <<>>)
             \o Keep(Tail(items), S, member)

C7_RequiredStringsNotEmpty ==
    /\ Done("DbConfig") =>
           /\ (\E k \in DbStrings : EmptyGiven(call.in.v, k)) => call.out = Raised
           /\ call.out # Raised =>
                  \A k \in DbStrings : StoredAsGiven(call.in.v, k, call.out[1][k])
    /\ Done("User") =>
           /\ (\E k \in {"name", "pw"} : EmptyGiven(call.in.v, k)) => call.out = Raised
           /\ call.out # Raised =>
                  /\ StoredAsGiven(call.in.v, "name", call.out[1].name)
                  /\ StoredAsGiven(call.in.v, "pw", call.out[1].pw[1])
    /\ Done("DbupgradeConfig") =>
           /\ (\E k \in {"db", "dc"} : EmptyGiven(call.in.v, k)) => call.out = Raised
           /\ call.out # Raised =>
                  \A k \in {"db", "dc"} : StoredAsGiven(call.in.v, k, call.out[1][k])

C7_Witness ==
    /\ Done("DbConfig")
    /\ EmptyGiven(call.in.v, "port")
    /\ \A k \in DbStrings \ {"port"} : ~EmptyGiven(call.in.v, k)
    /\ \A k \in Privileged : ~PwMissing(call.in.v[k])
    /\ call.out = Raised

\* A task has come back from load() / from save().
Loaded(t) == task[t].pc = "idle" /\ task[t].last = "load"
Saved(t) == task[t].pc = "idle" /\ task[t].last = "save" /\ task[t].saved # None

Present(c) == [st |-> "present", val |-> Some(c)]

\* C1: a load(c.db, c.dc) that follows at once a completed c.save(), with
\* nothing else touching the identity, returns a configuration equal to c in
\* every field.
C1_SaveThenLoadRoundTrip ==
    \A t \in Tasks :
        (Loaded(t) /\ task[t].saved # None) => task[t].res = Present(task[t].saved[1])

C1_Witness ==
    \E t \in Tasks :
        /\ Loaded(t) /\ task[t].saved # None
        /\ task[t].saved[1].src # None /\ task[t].saved[1].tables = None
        /\ task[t].saved[1].schema_name = None
        /\ task[t].res.st = "present"

\* C2: load(db, dc) never raises: with the file absent, or holding anything
\* that is no valid DbupgradeConfig, it returns None, and it returns a
\* configuration only when the content validates.
C2_LoadNeverRaises ==
    \A t \in Tasks :
        Loaded(t) =>
            LET f == FileAt(config_file(task[t].arg.db, task[t].arg.dc))
            IN  IF f = None \/ model_validate_json(f[1]) = Raised
                THEN task[t].res = [st |-> "none", val |-> None]
                ELSE task[t].res = Present(model_validate_json(f[1])[1])

\* C8: once two saves of different states of one identity have both
\* completed, the file exists and holds exactly the text of the save whose
\* write completed last.
C8_LastWriterWins ==
    \A t, u \in Tasks :
        ( /\ t # u /\ Saved(t) /\ Saved(u)
          /\ file(t) = file(u)
          /\ task[t].saved # task[u].saved )
        => FileAt(file(t)) = Some(wrote[file(t)])

C10_OtherIdentitiesUntouched ==
    \A id \in Idents :
        (\A t \in Tasks : id \notin task[t].ids)
        => FileAt(config_file(id.db, id.dc))
               = (IF config_file(id.db, id.dc) \in DOMAIN disk0
                  THEN Some(disk0[config_file(id.db, id.dc)]) ELSE None)

====
